---- MODULE Spec2Model ----
(***************************************************************************)
(* A model of go-job-orchestrator: the BoltDB store (definitions,          *)
(* executions, queue bucket), the orchestrator's coordinating loop, the    *)
(* ExecuteJob goroutines, startup recovery, Close, and the server's        *)
(* startup sequence and EnqueueJob callers.                                *)
(***************************************************************************)
EXTENDS Integers, Sequences, FiniteSets, TLC

\* ------------------------------------------------------------------ bounds
\* Largest value the wall clock reaches (execution ids are clock values).
MaxClock == 2
\* Number of times the process is killed and started again.
MaxCrashes == 1
\* Number of EnqueueJob calls made over the whole run.
MaxEnqueues == 2
\* maxRetry of the second task of the loaded definition.
MaxRetry == 2
\* The maxConcurrent argument of New (capacity of workerPool).
maxConcurrent == 1

\* ------------------------------------------------------------- vocabulary
JobStatusQueued == "QUEUED"
JobStatusRunning == "RUNNING"
JobStatusCompleted == "COMPLETED"
JobStatusFailed == "FAILED"

TaskStatusRunning == "RUNNING"
TaskStatusCompleted == "COMPLETED"
TaskStatusFailed == "FAILED"
\* A task id with no entry in TaskStatuses (reported as pending).
NoEntry == "NONE"

ExecIds == 1..MaxClock
TaskIds == {"t1", "t2"}
DefIds == {"d1", "d2"}
Clients == {"c1", "c2"}

\* The job definition file the server loads at startup: two tasks in order.
FileDefId == "d1"
FileDefTasks ==
    << [id |-> "t1", maxRetry |-> 0], [id |-> "t2", maxRetry |-> MaxRetry] >>

\* The body of a POST /job-definitions request: one task, which the server has
\* a function for.
ApiDefTasks == << [id |-> "t2", maxRetry |-> 0] >>
\* The definition ids such requests carry: the id of the loaded definition.
ApiDefIds == {FileDefId}

NoDef == << [id |-> "none", maxRetry |-> 0 - 1] >>
NoTasks == [t \in TaskIds |-> NoEntry]
NoExec == [def |-> "none", status |-> "NONE", ts |-> NoTasks, ended |-> FALSE]
NoErr == << >>

\* Goroutines running ExecuteJob. recoverState starts one per RUNNING
\* execution (entry x of `workers` for execution id x); processQueue has at
\* most maxConcurrent of them (the entries after MaxClock).
RecoverySlots == 1..MaxClock
PoolSlots == (MaxClock + 1)..(MaxClock + maxConcurrent)
Slots == RecoverySlots \cup PoolSlots

Idle ==
    [pc |-> "idle", id |-> 0, origin |-> "none", je |-> NoExec, jd |-> NoDef,
     i |-> 0, retries |-> 0, calls |-> 0, waits |-> << >>, err |-> NoErr,
     ctxDone |-> FALSE]

IdleClient == [pc |-> "idle", id |-> 0, def |-> "none"]

VARIABLES
    clock,          \* time.Now().UnixNano()
    jobDefs,        \* bucket job_definitions: definition id -> tasks
    jobExecs,       \* bucket job_executions: execution id -> record
    queue,          \* bucket queue: the set of keys
    dbOpen,         \* the bbolt handle is open
    mainPc,         \* position of main()
    recoverList,    \* runningJobs still to dispatch in recoverState
    regIdx,         \* tasks of the loaded definition already registered
    taskFunctions,  \* o.taskFunctions: task ids with a function
    ongoingJobs,    \* o.ongoingJobs: keys of the sync.Map
    workerPool,     \* number of tokens in o.workerPool
    loopPc,         \* position of processQueue
    loopJob,        \* jobID held by processQueue between dequeue and dispatch
    closePc,        \* position of Close
    workers,        \* the ExecuteJob goroutines
    clients,        \* the EnqueueJob callers (HTTP requests)
    crashes,        \* process kills so far
    enqueues,       \* EnqueueJob calls so far
    inserted        \* history: ids of the queue entries in insertion order

vars ==
    << clock, jobDefs, jobExecs, queue, dbOpen, mainPc, recoverList, regIdx,
       taskFunctions, ongoingJobs, workerPool, loopPc, loopJob, closePc,
       workers, clients, crashes, enqueues, inserted >>

storeVars == << jobDefs, jobExecs, queue, inserted >>
orchVars == << taskFunctions, ongoingJobs, workerPool, loopPc, loopJob >>
mainVars == << mainPc, recoverList, regIdx >>

\* ---------------------------------------------------------------- helpers
IsTerminal(st) == st \in {JobStatusCompleted, JobStatusFailed}

RECURSIVE Digits(_)
\* fmt.Sprintf("%d", n): the decimal digits of n, most significant first.
Digits(n) == IF n < 10 THEN << n >> ELSE Append(Digits(n \div 10), n % 10)

\* The bucket key of an execution id: "exec-" followed by the digits.
Key(id) == Digits(id)

\* bbolt orders keys bytewise (bytes.Compare).
BytesLess(a, b) ==
    \/ \E k \in 1..Len(a) :
          /\ k <= Len(b)
          /\ a[k] < b[k]
          /\ \A j \in 1..(k - 1) : a[j] = b[j]
    \/ /\ Len(a) < Len(b)
       /\ \A j \in 1..Len(a) : a[j] = b[j]

\* cursor.First(): the smallest key of a non-empty bucket.
FirstKey(S) == CHOOSE x \in S : \A y \in S \ {x} : BytesLess(Key(x), Key(y))

RECURSIVE ForEach(_)
\* bucket.ForEach: the keys of a bucket in key order.
ForEach(S) ==
    IF S = {} THEN << >> ELSE << FirstKey(S) >> \o ForEach(S \ {FirstKey(S)})

RemoveFromSeq(s, x) == SelectSeq(s, LAMBDA y : y # x)


\* ------------------------------------------------------------ store (bbolt)
\* StoreJobDefinition: Put of the definition under its id.
StoreJobDefinition(defs, id, tasks) == [defs EXCEPT ![id] = tasks]

\* StoreJobExecution / UpdateJobExecution: Put of the whole record under its id.
StoreJobExecution(execs, id, je) == [execs EXCEPT ![id] = je]

\* GetRunningJobs: ids of the records whose status is RUNNING, in key order.
GetRunningJobs(execs) ==
    ForEach({x \in ExecIds : execs[x].status = JobStatusRunning})

\* GetQueuedJobs: the keys of the queue bucket in key order.
GetQueuedJobs(q) == ForEach(q)

\* DequeueJob: the key the cursor returns first.
DequeueJob(q) == FirstKey(q)

\* The queue bucket after EnqueueJob: a Put of the key with an empty value.
QueuePut(q, id) == q \cup {id}

\* The queue bucket after RemoveFromQueue / the Delete in DequeueJob.
QueueDelete(q, id) == q \ {id}

\* History of the queue entries: a Put of a key already present adds no entry.
InsertedPut(ins, q, id) == IF id \in q THEN ins ELSE Append(ins, id)

\* GetJobExecutionState: the record and its definition are read and the
\* snapshot is built from the status and, for each task of the definition in
\* order, the task id with je.TaskStatuses[task.ID]; a failed read is the error.
GetJobExecutionState(execs, defs, open, x) ==
    IF ~open \/ execs[x] = NoExec
    THEN [err |-> << "GetJobExecution" >>]
    ELSE IF execs[x].def \notin DefIds \/ defs[execs[x].def] = NoDef
    THEN [err |-> << "GetJobDefinition" >>]
    ELSE LET jd == defs[execs[x].def] IN
         [err |-> NoErr,
          id |-> x,
          def |-> execs[x].def,
          status |-> execs[x].status,
          tasks |-> [k \in 1..Len(jd) |->
                        [id |-> jd[k].id, status |-> execs[x].ts[jd[k].id]]]]

\* ------------------------------------------------------------------- Init
Init ==
    /\ clock = 1
    /\ jobDefs = [d \in DefIds |-> NoDef]
    /\ jobExecs = [x \in ExecIds |-> NoExec]
    /\ queue = {}
    /\ dbOpen = TRUE
    /\ mainPc = "recover"
    /\ recoverList = << >>
    /\ regIdx = 0
    /\ taskFunctions = {}
    /\ ongoingJobs = {}
    /\ workerPool = 0
    /\ loopPc = "none"
    /\ loopJob = 0
    /\ closePc = "none"
    /\ workers = [s \in Slots |-> Idle]
    /\ clients = [c \in Clients |-> IdleClient]
    /\ crashes = 0
    /\ enqueues = 0
    /\ inserted = << >>

\* The wall clock advances.
Tick ==
    /\ clock < MaxClock
    /\ clock' = clock + 1
    /\ UNCHANGED << storeVars, dbOpen, mainVars, orchVars, closePc, workers,
                    clients, crashes, enqueues >>

\* ------------------------------------------------- goroutines (go f(...))
FreePoolSlot ==
    CHOOSE s \in PoolSlots :
        /\ workers[s].pc = "idle"
        /\ \A r \in PoolSlots : r < s => workers[r].pc # "idle"

\* go o.ExecuteJob(context.Background(), id), as goroutine s
Go(s, id, origin) ==
    [workers EXCEPT ![s] =
        [Idle EXCEPT !.pc = "L50", !.id = id, !.origin = origin]]

\* ------------------------------------------------------------ main / New
\* recoverState: the snapshot of the RUNNING executions.
MainRecover ==
    /\ mainPc = "recover"
    /\ recoverList' = GetRunningJobs(jobExecs)
    /\ mainPc' = "recoverLoop"
    /\ UNCHANGED << clock, storeVars, dbOpen, regIdx, orchVars, closePc,
                    workers, clients, crashes, enqueues >>

\* recoverState: one iteration of the loop over runningJobs.
MainRecoverNext ==
    /\ mainPc = "recoverLoop"
    /\ recoverList # << >>
    /\ ongoingJobs' = ongoingJobs \cup {Head(recoverList)}
    /\ workers' = Go(Head(recoverList), Head(recoverList), "recovery")
    /\ recoverList' = Tail(recoverList)
    /\ UNCHANGED << clock, storeVars, dbOpen, mainPc, regIdx, taskFunctions,
                    workerPool, loopPc, loopJob, closePc, clients, crashes, enqueues >>

\* New: go o.processQueue(), and New returns.
MainStartLoop ==
    /\ mainPc = "recoverLoop"
    /\ recoverList = << >>
    /\ loopPc' = "select"
    /\ mainPc' = "loadDefs"
    /\ UNCHANGED << clock, storeVars, dbOpen, recoverList, regIdx,
                    taskFunctions, ongoingJobs, workerPool, loopJob, closePc,
                    workers, clients, crashes, enqueues >>

\* loadJobDefinitions: RegisterJobDefinition of the definition file.
MainRegisterDefinition ==
    /\ mainPc = "loadDefs"
    /\ dbOpen
    /\ jobDefs' = StoreJobDefinition(jobDefs, FileDefId, FileDefTasks)
    /\ mainPc' = "registerFns"
    /\ regIdx' = 0
    /\ UNCHANGED << clock, jobExecs, queue, inserted, dbOpen, recoverList,
                    orchVars, closePc, workers, clients, crashes, enqueues >>

\* loadJobDefinitions: RegisterTaskFunction for the next task of the file;
\* after the last one the HTTP server starts.
MainRegisterTaskFunction ==
    /\ mainPc = "registerFns"
    /\ IF regIdx < Len(FileDefTasks)
       THEN /\ taskFunctions' = taskFunctions \cup {FileDefTasks[regIdx + 1].id}
            /\ regIdx' = regIdx + 1
            /\ mainPc' = mainPc
       ELSE /\ mainPc' = "serve"
            /\ regIdx' = 0
            /\ taskFunctions' = taskFunctions
    /\ UNCHANGED << clock, storeVars, dbOpen, recoverList, ongoingJobs,
                    workerPool, loopPc, loopJob, closePc, workers, clients,
                    crashes, enqueues >>

\* The process is killed and started again: memory is lost, the store stays.
Crash ==
    /\ crashes < MaxCrashes
    /\ crashes' = crashes + 1
    /\ dbOpen' = TRUE
    /\ mainPc' = "recover"
    /\ recoverList' = << >>
    /\ regIdx' = 0
    /\ taskFunctions' = {}
    /\ ongoingJobs' = {}
    /\ workerPool' = 0
    /\ loopPc' = "none"
    /\ loopJob' = 0
    /\ closePc' = "none"
    /\ workers' = [s \in Slots |-> Idle]
    /\ clients' = [c \in Clients |-> IdleClient]
    /\ UNCHANGED << clock, storeVars, enqueues >>

\* ----------------------------------------- POST /job-definitions (handler)
\* h.orch.RegisterJobDefinition(&jd): the definition is stored under its id;
\* on a closed store the error is returned and nothing changes.
HandleRegisterJobDefinition(d) ==
    /\ mainPc = "serve"
    /\ jobDefs' = IF dbOpen THEN StoreJobDefinition(jobDefs, d, ApiDefTasks)
                           ELSE jobDefs
    /\ UNCHANGED << clock, jobExecs, queue, inserted, dbOpen, mainVars,
                    orchVars, closePc, workers, clients, crashes, enqueues >>

\* ------------------------------------------------- Orchestrator.EnqueueJob
\* The new JobExecution: its id is the clock value read.
EnqBegin(c, d) ==
    /\ mainPc = "serve"
    /\ enqueues < MaxEnqueues
    /\ clients[c].pc = "idle"
    /\ clients' = [clients EXCEPT ![c] = [pc |-> "store", id |-> clock, def |-> d]]
    /\ enqueues' = enqueues + 1
    /\ UNCHANGED << clock, storeVars, dbOpen, mainVars, orchVars, closePc,
                    workers, crashes >>

\* The clock value read was never read by an earlier EnqueueJob call that is
\* in progress or has stored its record.
FreshId(id) ==
    /\ jobExecs[id] = NoExec
    /\ \A k \in Clients : clients[k].id # id

\* EnqueueJob when the clock has advanced since every earlier call.
EnqBeginFresh(c, d) == FreshId(clock) /\ EnqBegin(c, d)

\* o.db.StoreJobExecution(execution)
EnqStore(c) ==
    /\ clients[c].pc = "store"
    /\ IF dbOpen
       THEN /\ jobExecs' = StoreJobExecution(jobExecs, clients[c].id,
                    [def |-> clients[c].def, status |-> JobStatusQueued,
                     ts |-> NoTasks, ended |-> FALSE])
            /\ clients' = [clients EXCEPT ![c].pc = "queue"]
       ELSE /\ jobExecs' = jobExecs
            /\ clients' = [clients EXCEPT ![c] = IdleClient]
    /\ UNCHANGED << clock, jobDefs, queue, inserted, dbOpen, mainVars,
                    orchVars, closePc, workers, crashes, enqueues >>

\* o.db.EnqueueJob(execution.ID), and the return.
EnqQueue(c) ==
    /\ clients[c].pc = "queue"
    /\ IF dbOpen
       THEN /\ queue' = QueuePut(queue, clients[c].id)
            /\ inserted' = InsertedPut(inserted, queue, clients[c].id)
       ELSE UNCHANGED << queue, inserted >>
    /\ clients' = [clients EXCEPT ![c] = IdleClient]
    /\ UNCHANGED << clock, jobDefs, jobExecs, dbOpen, mainVars, orchVars,
                    closePc, workers, crashes, enqueues >>


\* ------------------------------------------------------------ processQueue
\* Mutant: the stop signal is also taken while the loop waits for a worker
\* slot, with a dequeued id in hand.
LoopStop_WhileAcquiring ==
    /\ loopPc \in {"select", "acquire"}
    /\ closePc = "send"
    /\ loopPc' = "exited"
    /\ closePc' = "wait"
    /\ UNCHANGED << clock, storeVars, dbOpen, mainVars, taskFunctions,
                    ongoingJobs, workerPool, loopJob, workers, clients, crashes, enqueues >>

\* select: case <-o.stop, taken when Close is sending; the loop returns and
\* the deferred close(o.done) runs.
LoopStop ==
    /\ loopPc = "select"
    /\ closePc = "send"
    /\ loopPc' = "exited"
    /\ closePc' = "wait"
    /\ UNCHANGED << clock, storeVars, dbOpen, mainVars, taskFunctions,
                    ongoingJobs, workerPool, loopJob, workers, clients, crashes, enqueues >>

\* select: default, o.db.DequeueJob().
LoopDequeue ==
    /\ loopPc = "select"
    /\ closePc # "send"
    /\ IF ~dbOpen
       THEN \* any other error: logged, continue
            UNCHANGED << queue, inserted, loopPc, loopJob >>
       ELSE IF queue = {}
       THEN \* "queue is empty": time.Sleep(time.Second)
            /\ loopPc' = "sleep"
            /\ UNCHANGED << queue, inserted, loopJob >>
       ELSE /\ loopJob' = DequeueJob(queue)
            /\ queue' = QueueDelete(queue, DequeueJob(queue))
            /\ inserted' = RemoveFromSeq(inserted, DequeueJob(queue))
            /\ loopPc' = "acquire"
    /\ UNCHANGED << clock, jobDefs, jobExecs, dbOpen, mainVars, taskFunctions,
                    ongoingJobs, workerPool, closePc, workers, clients, crashes, enqueues >>

\* The sleep after an empty dequeue ends.
LoopWake ==
    /\ loopPc = "sleep"
    /\ loopPc' = "select"
    /\ UNCHANGED << clock, storeVars, dbOpen, mainVars, taskFunctions,
                    ongoingJobs, workerPool, loopJob, closePc, workers,
                    clients, crashes, enqueues >>

\* o.workerPool <- struct{}{} (blocks while the pool is full), then the
\* goroutine running ExecuteJob is started.
LoopDispatch ==
    /\ loopPc = "acquire"
    /\ workerPool < maxConcurrent
    /\ workerPool' = workerPool + 1
    /\ workers' = Go(FreePoolSlot, loopJob, "queue")
    /\ loopJob' = 0
    /\ loopPc' = "select"
    /\ UNCHANGED << clock, storeVars, dbOpen, mainVars, taskFunctions,
                    ongoingJobs, closePc, clients, crashes, enqueues >>

\* ------------------------------------------------------------------- Close
\* Close is called: o.stop <- struct{}{} starts to block.
CloseBegin ==
    /\ mainPc = "serve"
    /\ closePc = "none"
    /\ closePc' = "send"
    /\ UNCHANGED << clock, storeVars, dbOpen, mainVars, orchVars, workers,
                    clients, crashes, enqueues >>

\* <-o.done has returned: o.db.Close().
CloseDb ==
    /\ closePc = "wait"
    /\ loopPc = "exited"
    /\ dbOpen' = FALSE
    /\ closePc' = "closed"
    /\ UNCHANGED << clock, storeVars, mainVars, orchVars, workers, clients,
                    crashes, enqueues >>


\* ------------------------------------------------- ExecuteJob, executeTask
envVars == << clock, dbOpen, mainVars, closePc, clients, crashes, enqueues >>
execFrame == << envVars, jobDefs, taskFunctions, loopPc, loopJob >>

\* The task the loop of ExecuteJob is at.
CurTask(w) == w.jd[w.i]

\* The record after an UpdateJobExecution that may fail on a closed handle.
Persist(w) == IF dbOpen THEN StoreJobExecution(jobExecs, w.id, w.je) ELSE jobExecs

\* Mutant: only COMPLETED counts as already done.
AlreadyDone_CompletedOnly(je) == je.status = JobStatusCompleted

\* The check that skips an execution already in a terminal state.
AlreadyDone(je) == IsTerminal(je.status)

\* The loop over jd.Tasks starts at the first task, whatever je.TaskStatuses holds.
StartIndex(je, jd) == 1

\* The loop condition of executeTask: this attempt was the last one allowed.
RetriesExhausted(retries, task) == retries = task.maxRetry

\* Mutant: the shift uses the attempt number counted from one.
BackoffSeconds_FromOne(retries) == 2 ^ (retries + 1)

\* time.Duration(1<<retries) * time.Second, in seconds.
BackoffSeconds(retries) == 2 ^ retries

\* The position after task i of jd: the next task, or the end of the loop.
AfterTask(jd, i) == IF i < Len(jd) THEN "L101" ELSE "L139"

\* je, err := o.db.GetJobExecution(executionID), and the terminal-state check.
ExecGetExecution(s) ==
    LET w == workers[s] IN
    /\ w.pc = "L50"
    /\ IF ~dbOpen \/ jobExecs[w.id] = NoExec
       THEN workers' = [workers EXCEPT ![s].pc = "ret",
                                       ![s].err = << "GetJobExecution" >>]
       ELSE IF AlreadyDone(jobExecs[w.id])
       THEN workers' = [workers EXCEPT ![s].pc = "ret", ![s].je = jobExecs[w.id]]
       ELSE workers' = [workers EXCEPT ![s].pc = "L63", ![s].je = jobExecs[w.id]]
    /\ UNCHANGED << execFrame, jobExecs, queue, inserted, ongoingJobs, workerPool >>

\* Mutant: a definition that does not resolve marks the execution FAILED.
ExecGetDefinition_MarksFailed(s) ==
    LET w == workers[s] IN
    /\ w.pc = "L63"
    /\ IF ~dbOpen \/ jobDefs[w.je.def] = NoDef
       THEN /\ workers' = [workers EXCEPT ![s].pc = "ret",
                                          ![s].je.status = JobStatusFailed,
                                          ![s].err = << "GetJobDefinition" >>]
            /\ jobExecs' = Persist([w EXCEPT !.je.status = JobStatusFailed])
       ELSE /\ workers' = [workers EXCEPT ![s].pc = "L71", ![s].jd = jobDefs[w.je.def]]
            /\ jobExecs' = jobExecs
    /\ UNCHANGED << execFrame, queue, inserted, ongoingJobs, workerPool >>

\* jd, err := o.db.GetJobDefinition(je.DefinitionID)
ExecGetDefinition(s) ==
    LET w == workers[s] IN
    /\ w.pc = "L63"
    /\ IF ~dbOpen \/ jobDefs[w.je.def] = NoDef
       THEN workers' = [workers EXCEPT ![s].pc = "ret",
                                       ![s].err = << "GetJobDefinition" >>]
       ELSE workers' = [workers EXCEPT ![s].pc = "L71", ![s].jd = jobDefs[w.je.def]]
    /\ UNCHANGED << execFrame, jobExecs, queue, inserted, ongoingJobs, workerPool >>

\* je.Status = RUNNING; o.db.UpdateJobExecution(je), an error returns.
ExecMarkRunning(s) ==
    LET w == workers[s]
        r == [w EXCEPT !.je.status = JobStatusRunning]
    IN
    /\ w.pc = "L71"
    /\ jobExecs' = Persist(r)
    /\ IF dbOpen
       THEN workers' = [workers EXCEPT ![s] = [r EXCEPT !.pc = "L77"]]
       ELSE workers' = [workers EXCEPT ![s] =
                           [r EXCEPT !.pc = "ret", !.err = << "UpdateJobExecution" >>]]
    /\ UNCHANGED << execFrame, queue, inserted, ongoingJobs, workerPool >>

\* o.ongoingJobs.Store(executionID, ...); the deferred cleanup is registered.
ExecTrack(s) ==
    LET w == workers[s] IN
    /\ w.pc = "L77"
    /\ ongoingJobs' = ongoingJobs \cup {w.id}
    /\ workers' = [workers EXCEPT
            ![s].i = StartIndex(w.je, w.jd),
            ![s].pc = IF Len(w.jd) = 0 THEN "L139" ELSE "L101"]
    /\ UNCHANGED << execFrame, jobExecs, queue, inserted, workerPool >>

\* The head of the loop body: the cancellation check, else the task is set
\* RUNNING and the record written (a failed write is only logged).
ExecTaskStart(s) ==
    LET w == workers[s]
        t == CurTask(w).id
    IN
    /\ w.pc = "L101"
    /\ IF w.ctxDone
       THEN /\ workers' = [workers EXCEPT ![s] =
                    [w EXCEPT !.je.status = JobStatusFailed,
                              !.je.ts[t] = TaskStatusFailed,
                              !.err = << "ctx.Err" >>,
                              !.pc = "defer82"]]
            /\ jobExecs' = jobExecs
       ELSE LET r == [w EXCEPT !.je.ts[t] = TaskStatusRunning] IN
            /\ jobExecs' = Persist(r)
            /\ workers' = [workers EXCEPT ![s] = [r EXCEPT !.pc = "L289"]]
    /\ UNCHANGED << execFrame, queue, inserted, ongoingJobs, workerPool >>

\* Mutant: the result of the registry lookup is not checked.
ExecTaskLookup_Unchecked(s) ==
    /\ workers[s].pc = "L289"
    /\ workers' = [workers EXCEPT ![s].pc = "L299", ![s].retries = 0,
                                  ![s].calls = 0, ![s].waits = << >>]
    /\ UNCHANGED << execFrame, jobExecs, queue, inserted, ongoingJobs, workerPool >>

\* executeTask: fn, ok := o.taskFunctions[task.ID]
ExecTaskLookup(s) ==
    LET w == workers[s]
        t == CurTask(w).id
    IN
    /\ w.pc = "L289"
    /\ IF t \in taskFunctions
       THEN workers' = [workers EXCEPT ![s].pc = "L299", ![s].retries = 0,
                                       ![s].calls = 0, ![s].waits = << >>]
       ELSE workers' = [workers EXCEPT ![s].pc = "L120", ![s].retries = 0,
                                       ![s].calls = 0, ![s].waits = << >>,
                                       ![s].err = << "FunctionNotRegistered", t >>]
    /\ UNCHANGED << execFrame, jobExecs, queue, inserted, ongoingJobs, workerPool >>

\* executeTask reads o.taskFunctions while main is in the loop that writes it
\* (RegisterTaskFunction): an unsynchronized map read during a map write. Next
\* to the two results of the lookup, the Go runtime may detect the concurrent
\* access and end the process ("concurrent map read and map write").
ExecTaskLookupRace(s) ==
    /\ workers[s].pc = "L289"
    /\ mainPc = "registerFns"
    /\ regIdx < Len(FileDefTasks)
    /\ mainPc' = "exited"
    /\ recoverList' = << >>
    /\ regIdx' = 0
    /\ taskFunctions' = {}
    /\ ongoingJobs' = {}
    /\ workerPool' = 0
    /\ loopPc' = "none"
    /\ loopJob' = 0
    /\ closePc' = "none"
    /\ workers' = [r \in Slots |-> Idle]
    /\ clients' = [c \in Clients |-> IdleClient]
    /\ UNCHANGED << clock, storeVars, dbOpen, crashes, enqueues >>

\* Mutant: the retry loop gives up when the context is cancelled.
ExecTaskCall_ChecksCtx(s, ok) ==
    LET w == workers[s]
        task == CurTask(w)
    IN
    /\ w.pc = "L299"
    /\ workers' = [workers EXCEPT ![s] =
          IF w.ctxDone
          THEN [w EXCEPT !.pc = "L120", !.err = << "ctx.Err" >>]
          ELSE IF ok
          THEN [w EXCEPT !.calls = w.calls + 1, !.pc = "L130"]
          ELSE IF RetriesExhausted(w.retries, task)
          THEN [w EXCEPT !.calls = w.calls + 1, !.pc = "L120",
                         !.err = << "RetriesExhausted", task.id, task.maxRetry >>]
          ELSE [w EXCEPT !.calls = w.calls + 1,
                         !.waits = Append(w.waits, BackoffSeconds(w.retries)),
                         !.retries = w.retries + 1]]
    /\ UNCHANGED << execFrame, jobExecs, queue, inserted, ongoingJobs, workerPool >>

\* executeTask: one pass of the retry loop. fn is called and returns nil (ok)
\* or an error; after a failed attempt that is not the last, the backoff sleep.
ExecTaskCall(s, ok) ==
    LET w == workers[s]
        task == CurTask(w)
    IN
    /\ w.pc = "L299"
    /\ workers' = [workers EXCEPT ![s] =
          IF ok
          THEN [w EXCEPT !.calls = w.calls + 1, !.pc = "L130"]
          ELSE IF RetriesExhausted(w.retries, task)
          THEN [w EXCEPT !.calls = w.calls + 1, !.pc = "L120",
                         !.err = << "RetriesExhausted", task.id, task.maxRetry >>]
          ELSE [w EXCEPT !.calls = w.calls + 1,
                         !.waits = Append(w.waits, BackoffSeconds(w.retries)),
                         !.retries = w.retries + 1]]
    /\ UNCHANGED << execFrame, jobExecs, queue, inserted, ongoingJobs, workerPool >>

\* Mutant: the failure is recorded but ExecuteJob does not return.
ExecTaskFailed_NoReturn(s) ==
    LET w == workers[s]
        t == CurTask(w).id
        r == [w EXCEPT !.je.ts[t] = TaskStatusFailed,
                       !.je.status = JobStatusFailed]
    IN
    /\ w.pc = "L120"
    /\ jobExecs' = Persist(r)
    /\ workers' = [workers EXCEPT ![s] =
            [r EXCEPT !.pc = AfterTask(w.jd, w.i),
                      !.i = IF w.i < Len(w.jd) THEN w.i + 1 ELSE w.i,
                      !.retries = 0, !.calls = 0, !.waits = << >>]]
    /\ UNCHANGED << execFrame, queue, inserted, ongoingJobs, workerPool >>

\* executeTask returned an error: task FAILED, job FAILED, the record written,
\* and ExecuteJob returns the wrapped error.
ExecTaskFailed(s) ==
    LET w == workers[s]
        t == CurTask(w).id
        r == [w EXCEPT !.je.ts[t] = TaskStatusFailed,
                       !.je.status = JobStatusFailed]
    IN
    /\ w.pc = "L120"
    /\ jobExecs' = Persist(r)
    /\ workers' = [workers EXCEPT ![s] =
            [r EXCEPT !.pc = "defer82", !.err = << "TaskFailed", t >> \o w.err]]
    /\ UNCHANGED << execFrame, queue, inserted, ongoingJobs, workerPool >>

\* executeTask returned nil: task COMPLETED, the record written, next task.
ExecTaskCompleted(s) ==
    LET w == workers[s]
        t == CurTask(w).id
        r == [w EXCEPT !.je.ts[t] = TaskStatusCompleted]
    IN
    /\ w.pc = "L130"
    /\ jobExecs' = Persist(r)
    /\ workers' = [workers EXCEPT ![s] =
            [r EXCEPT !.pc = AfterTask(w.jd, w.i),
                      !.i = IF w.i < Len(w.jd) THEN w.i + 1 ELSE w.i,
                      !.retries = 0, !.calls = 0, !.waits = << >>]]
    /\ UNCHANGED << execFrame, queue, inserted, ongoingJobs, workerPool >>

\* After the loop: je.Status = COMPLETED and the record written.
ExecJobCompleted(s) ==
    LET w == workers[s]
        r == [w EXCEPT !.je.status = JobStatusCompleted]
    IN
    /\ w.pc = "L139"
    /\ jobExecs' = Persist(r)
    /\ workers' = [workers EXCEPT ![s] =
            [r EXCEPT !.pc = "defer82",
                      !.err = IF dbOpen THEN NoErr ELSE << "UpdateJobExecution" >>]]
    /\ UNCHANGED << execFrame, queue, inserted, ongoingJobs, workerPool >>

\* deferred: o.ongoingJobs.Delete(executionID)
ExecDeferUntrack(s) ==
    LET w == workers[s] IN
    /\ w.pc = "defer82"
    /\ ongoingJobs' = ongoingJobs \ {w.id}
    /\ workers' = [workers EXCEPT ![s].pc = "defer83"]
    /\ UNCHANGED << execFrame, jobExecs, queue, inserted, workerPool >>

\* deferred: je.EndTime = time.Now(); o.db.UpdateJobExecution(je)
ExecDeferPersist(s) ==
    LET w == workers[s]
        r == [w EXCEPT !.je.ended = TRUE]
    IN
    /\ w.pc = "defer83"
    /\ jobExecs' = Persist(r)
    /\ workers' = [workers EXCEPT ![s] = [r EXCEPT !.pc = "defer87"]]
    /\ UNCHANGED << execFrame, queue, inserted, ongoingJobs, workerPool >>

\* deferred: o.db.RemoveFromQueue(executionID)
ExecDeferRemove(s) ==
    LET w == workers[s] IN
    /\ w.pc = "defer87"
    /\ IF dbOpen
       THEN /\ queue' = QueueDelete(queue, w.id)
            /\ inserted' = RemoveFromSeq(inserted, w.id)
       ELSE UNCHANGED << queue, inserted >>
    /\ workers' = [workers EXCEPT ![s].pc = "ret"]
    /\ UNCHANGED << execFrame, jobExecs, ongoingJobs, workerPool >>

\* Mutant: the goroutine ends without receiving from workerPool.
ExecReturn_NoRelease(s) ==
    LET w == workers[s] IN
    /\ w.pc = "ret"
    /\ workers' = [workers EXCEPT ![s] = Idle]
    /\ UNCHANGED << execFrame, jobExecs, queue, inserted, ongoingJobs, workerPool >>

\* Mutant: the slot is released only when ExecuteJob returned nil.
ExecReturn_ReleaseOnSuccess(s) ==
    LET w == workers[s] IN
    /\ w.pc = "ret"
    /\ workerPool' = IF w.origin = "queue" /\ w.err = NoErr
                     THEN workerPool - 1 ELSE workerPool
    /\ workers' = [workers EXCEPT ![s] = Idle]
    /\ UNCHANGED << execFrame, jobExecs, queue, inserted, ongoingJobs >>

\* ExecuteJob has returned: a goroutine started by processQueue releases its
\* worker slot (<-o.workerPool); the goroutine ends.
ExecReturn(s) ==
    LET w == workers[s] IN
    /\ w.pc = "ret"
    /\ workerPool' = IF w.origin = "queue" THEN workerPool - 1 ELSE workerPool
    /\ workers' = [workers EXCEPT ![s] = Idle]
    /\ UNCHANGED << execFrame, jobExecs, queue, inserted, ongoingJobs >>

\* --------------------------------------------------------- specification
Scheduler == LoopStop \/ LoopDequeue \/ LoopWake \/ LoopDispatch

Startup ==
    \/ MainRecover
    \/ MainRecoverNext
    \/ MainStartLoop
    \/ MainRegisterDefinition
    \/ MainRegisterTaskFunction

Enqueue ==
    \E c \in Clients :
        \/ \E d \in DefIds : EnqBegin(c, d)
        \/ EnqStore(c)
        \/ EnqQueue(c)

EnqueueDistinct ==
    \E c \in Clients :
        \/ \E d \in DefIds : EnqBeginFresh(c, d)
        \/ EnqStore(c)
        \/ EnqQueue(c)

\* One step of the ExecuteJob call of goroutine s.
ExecuteJob(s) ==
    \/ ExecGetExecution(s)
    \/ ExecGetDefinition(s)
    \/ ExecMarkRunning(s)
    \/ ExecTrack(s)
    \/ ExecTaskStart(s)
    \/ ExecTaskLookup(s)
    \/ ExecTaskLookupRace(s)
    \/ \E ok \in BOOLEAN : ExecTaskCall(s, ok)
    \/ ExecTaskFailed(s)
    \/ ExecTaskCompleted(s)
    \/ ExecJobCompleted(s)
    \/ ExecDeferUntrack(s)
    \/ ExecDeferPersist(s)
    \/ ExecDeferRemove(s)
    \/ ExecReturn(s)

Execute == \E s \in Slots : ExecuteJob(s)

Register == \E d \in ApiDefIds : HandleRegisterJobDefinition(d)

Next ==
    \/ Tick
    \/ Startup
    \/ Enqueue
    \/ Scheduler
    \/ Execute
    \/ Register
    \/ CloseBegin
    \/ CloseDb
    \/ Crash

Spec == Init /\ [][Next]_vars

\* The system when no two EnqueueJob calls read the same clock value.
NextDistinctIds ==
    \/ Tick
    \/ Startup
    \/ EnqueueDistinct
    \/ Scheduler
    \/ Execute
    \/ Register
    \/ CloseBegin
    \/ CloseDb
    \/ Crash

SpecDistinctIds == Init /\ [][NextDistinctIds]_vars

\* The system while it is not stopped, with distinct execution ids, under the
\* fairness of the Go scheduler: every goroutine that can take a step
\* eventually takes one (main, each request handler once it has started,
\* processQueue, each ExecuteJob goroutine). New requests, clock ticks and the
\* kill of the process are not forced.
NextLive ==
    \/ Tick
    \/ Startup
    \/ EnqueueDistinct
    \/ LoopDequeue
    \/ LoopWake
    \/ LoopDispatch
    \/ Execute
    \/ Register
    \/ Crash

Fairness ==
    /\ WF_vars(Startup)
    /\ \A c \in Clients : WF_vars(EnqStore(c) \/ EnqQueue(c))
    /\ WF_vars(LoopDequeue \/ LoopWake \/ LoopDispatch)
    /\ \A s \in Slots : WF_vars(ExecuteJob(s))

LiveSpec == Init /\ [][NextLive]_vars /\ Fairness

\* A step of goroutine s that is not a call of a task function.
ExecuteJobOwnCode(s) ==
    \/ ExecGetExecution(s)
    \/ ExecGetDefinition(s)
    \/ ExecMarkRunning(s)
    \/ ExecTrack(s)
    \/ ExecTaskStart(s)
    \/ ExecTaskLookup(s)
    \/ ExecTaskFailed(s)
    \/ ExecTaskCompleted(s)
    \/ ExecJobCompleted(s)
    \/ ExecDeferUntrack(s)
    \/ ExecDeferPersist(s)
    \/ ExecDeferRemove(s)
    \/ ExecReturn(s)

\* The system with Close, under the fairness of the Go scheduler for main,
\* processQueue, Close and the code of ExecuteJob, where a call of a task
\* function may take any time: it is not forced to return.
CloseFairness ==
    /\ WF_vars(Startup)
    /\ WF_vars(Scheduler)
    /\ WF_vars(CloseDb)
    /\ \A s \in Slots : WF_vars(ExecuteJobOwnCode(s))

CloseSpec == Init /\ [][NextDistinctIds]_vars /\ CloseFairness

\* The context given to the ExecuteJob call of goroutine s is cancelled by the
\* caller (ExecuteJob is exported and takes any context).
CtxCancel(s) ==
    /\ workers[s].pc # "idle"
    /\ ~ workers[s].ctxDone
    /\ workers' = [workers EXCEPT ![s].ctxDone = TRUE]
    /\ UNCHANGED << execFrame, jobExecs, queue, inserted, ongoingJobs, workerPool >>

\* The running system (no Close, distinct ids) with ExecuteJob calls whose
\* context may be cancelled at any moment.
NextCtx ==
    \/ NextLive
    \/ \E s \in Slots : CtxCancel(s)

CtxSpec == Init /\ [][NextCtx]_vars

\* select: default, o.db.DequeueJob() returns an error other than "queue is
\* empty" (the bbolt update transaction fails, nothing is written): the error
\* is logged.
LoopDequeueFails ==
    /\ loopPc = "select"
    /\ closePc # "send"
    /\ loopPc' = "logErr"
    /\ UNCHANGED << clock, storeVars, dbOpen, mainVars, taskFunctions,
                    ongoingJobs, workerPool, loopJob, closePc, workers,
                    clients, crashes, enqueues >>

\* continue, after the log line: back to the select.
LoopContinue ==
    /\ loopPc = "logErr"
    /\ loopPc' = "select"
    /\ UNCHANGED << clock, storeVars, dbOpen, mainVars, taskFunctions,
                    ongoingJobs, workerPool, loopJob, closePc, workers,
                    clients, crashes, enqueues >>

\* The running system with a store whose dequeue transaction can fail.
NextStoreErr ==
    \/ NextLive
    \/ LoopDequeueFails
    \/ LoopContinue

StoreErrSpec == Init /\ [][NextStoreErr]_vars

\* ------------------------------------------- Orchestrator.GetSystemState
\* The clients that send GET /system/state.
SysClients == {"c2"}

\* o.ongoingJobs.Range: the snapshot of each tracked id is built, an id whose
\* GetJobExecutionState fails is left out.
SysRange(c) ==
    /\ mainPc = "serve"
    /\ c \in SysClients
    /\ clients[c].pc = "idle"
    /\ clients' = [clients EXCEPT ![c] =
          [pc |-> "sysQueued", id |-> 0, def |-> "none",
           activeJobs |-> { x \in ongoingJobs :
               GetJobExecutionState(jobExecs, jobDefs, dbOpen, x).err = NoErr },
           queuedJobs |-> << >>, queuedCount |-> 0]]
    /\ UNCHANGED << clock, storeVars, dbOpen, mainVars, orchVars, closePc,
                    workers, crashes, enqueues >>

\* o.db.GetQueuedJobs(), in a read transaction of its own; on an error
\* GetSystemState returns it.
SysQueuedJobs(c) ==
    /\ clients[c].pc = "sysQueued"
    /\ clients' = [clients EXCEPT ![c] =
          IF dbOpen
          THEN [@ EXCEPT !.pc = "sysCount", !.queuedJobs = GetQueuedJobs(queue)]
          ELSE IdleClient]
    /\ UNCHANGED << clock, storeVars, dbOpen, mainVars, orchVars, closePc,
                    workers, crashes, enqueues >>

\* o.db.GetQueuedJobCount(), in another read transaction: the number of keys
\* of the queue bucket.
SysQueuedCount(c) ==
    /\ clients[c].pc = "sysCount"
    /\ clients' = [clients EXCEPT ![c] =
          IF dbOpen
          THEN [@ EXCEPT !.pc = "sysDone", !.queuedCount = Cardinality(queue)]
          ELSE IdleClient]
    /\ UNCHANGED << clock, storeVars, dbOpen, mainVars, orchVars, closePc,
                    workers, crashes, enqueues >>

\* return state, nil: the handler writes the snapshot.
SysReturn(c) ==
    /\ clients[c].pc = "sysDone"
    /\ clients' = [clients EXCEPT ![c] = IdleClient]
    /\ UNCHANGED << clock, storeVars, dbOpen, mainVars, orchVars, closePc,
                    workers, crashes, enqueues >>

GetSystemState ==
    \E c \in Clients :
        \/ SysRange(c)
        \/ SysQueuedJobs(c)
        \/ SysQueuedCount(c)
        \/ SysReturn(c)

\* The running system with clients that ask for the system state.
NextSys ==
    \/ NextLive
    \/ GetSystemState

SysSpec == Init /\ [][NextSys]_vars

\* Every goroutine started finds its entry of `workers` free.
SlotsSuffice ==
    /\ (mainPc = "recoverLoop" /\ recoverList # << >>)
            => workers[Head(recoverList)].pc = "idle"
    /\ (loopPc = "acquire" /\ workerPool < maxConcurrent)
            => \E s \in PoolSlots : workers[s].pc = "idle"

\* ------------------------------------------------------------ observation
\* Goroutine s calls a task function in this step.
CallsFn(s) ==
    /\ workers[s].pc = "L299"
    /\ workers'[s].calls = workers[s].calls + 1

\* The moves of a persisted job status the data model allows.
StatusMove(a, b) ==
    \/ a = b
    \/ a = "NONE" /\ b = JobStatusQueued
    \/ a = JobStatusQueued /\ b = JobStatusRunning
    \/ a = JobStatusRunning /\ IsTerminal(b)

\* C1: the persisted status of every execution only moves QUEUED -> RUNNING ->
\* {COMPLETED, FAILED}; once it is COMPLETED or FAILED it never changes and no
\* task function is called for that execution.
C1_StatusMonotonic ==
    [][\A x \in ExecIds :
          /\ StatusMove(jobExecs[x].status, jobExecs'[x].status)
          /\ IsTerminal(jobExecs[x].status) =>
                ~ \E s \in Slots : workers[s].id = x /\ CallsFn(s)]_vars

\* PENDING (no entry) < RUNNING < {COMPLETED, FAILED}
Rank(st) ==
    IF st = NoEntry THEN 0 ELSE IF st = TaskStatusRunning THEN 1 ELSE 2

\* C2: the status of a task of an execution, as stored, never regresses in the
\* order PENDING < RUNNING < {COMPLETED, FAILED}, also across a recovery.
C2_TaskStatusMonotonic ==
    [][\A x \in ExecIds : \A t \in TaskIds :
          Rank(jobExecs'[x].ts[t]) >= Rank(jobExecs[x].ts[t])]_vars

\* The goroutines with an ExecuteJob call in progress.
Running == {s \in Slots : workers[s].pc \notin {"idle", "ret"}}

\* C3: at most maxConcurrent ids are in the ongoing set and at most
\* maxConcurrent ExecuteJob calls are in progress, whoever dispatched them.
C3_BoundedConcurrency ==
    /\ Cardinality(ongoingJobs) <= maxConcurrent
    /\ Cardinality(Running) <= maxConcurrent

\* C5: no two ExecuteJob calls are in progress for the same execution id.
C5_OneWorkerPerExecution ==
    \A s1 \in Running : \A s2 \in Running :
        workers[s1].id = workers[s2].id => s1 = s2

\* C10: the queue is FIFO by insertion: GetQueuedJobs lists the ids in the
\* order their entries were inserted and DequeueJob returns the oldest entry.
C10_FifoByInsertion ==
    /\ GetQueuedJobs(queue) = inserted
    /\ queue # {} => DequeueJob(queue) = Head(inserted)

\* The waits 2^0, 2^1, ..., 2^(n-1), in seconds.
Waits(n) == [k \in 1..n |-> 2 ^ (k - 1)]

\* C7: executeTask on a registered task with maxRetry = R calls the function
\* until it first succeeds, at most R + 1 times, and waits 2^0, ..., 2^(k-2)
\* seconds between k calls, never after the last one; when all R + 1 calls fail
\* the error names the task id and R, and the task and the job are set FAILED
\* and written with the error returned by ExecuteJob.
C7_RetryInvariant ==
    \A s \in Slots :
        LET w == workers[s] IN
        /\ (w.pc = "L130") =>
                /\ w.calls \in 1..(CurTask(w).maxRetry + 1)
                /\ w.waits = Waits(w.calls - 1)
        /\ (w.pc = "L120" /\ w.err[1] = "RetriesExhausted") =>
                /\ w.calls = CurTask(w).maxRetry + 1
                /\ w.waits = Waits(CurTask(w).maxRetry)
                /\ w.err = << "RetriesExhausted", CurTask(w).id, CurTask(w).maxRetry >>
        /\ (w.pc = "L299") =>
                /\ w.calls = w.retries
                /\ w.calls <= CurTask(w).maxRetry
                /\ w.waits = Waits(w.calls)

C7_RetryOutcome ==
    \A s \in Slots :
        LET w == workers[s] IN
        (w.pc = "L120" /\ w.err[1] = "RetriesExhausted" /\ workers'[s] # w) =>
            /\ workers'[s].pc \in {"defer82", "idle"}
            /\ workers'[s].pc = "defer82" =>
                /\ workers'[s].je.status = JobStatusFailed
                /\ workers'[s].je.ts[CurTask(w).id] = TaskStatusFailed
                /\ workers'[s].err = << "TaskFailed", CurTask(w).id >> \o w.err
                /\ dbOpen => jobExecs'[w.id] = workers'[s].je

C7_Retry == []C7_RetryInvariant /\ [][C7_RetryOutcome]_vars

\* A task with maxRetry = MaxRetry has failed MaxRetry + 1 times.
C7_Witness ==
    \E s \in Slots :
        /\ workers[s].pc = "L120"
        /\ workers[s].err = << "RetriesExhausted", "t2", MaxRetry >>
        /\ workers[s].calls = MaxRetry + 1
        /\ Len(workers[s].waits) = MaxRetry

\* C8: a task whose id has no registered function fails at once: no function
\* call, no backoff wait whatever maxRetry is, the function-not-registered
\* error, and the task and the job set FAILED and written.
C8_NotRegisteredState ==
    \A s \in Slots :
        LET w == workers[s] IN
        (w.pc = "L120" /\ w.err[1] = "FunctionNotRegistered") =>
            /\ w.calls = 0
            /\ w.waits = << >>
            /\ w.err = << "FunctionNotRegistered", CurTask(w).id >>

C8_NotRegisteredStep ==
    \A s \in Slots :
        LET w == workers[s] IN
        /\ (w.pc = "L289" /\ CurTask(w).id \notin taskFunctions /\ workers'[s] # w) =>
                /\ ~ CallsFn(s)
                /\ workers'[s].pc \in {"L120", "idle"}
                /\ workers'[s].pc = "L120" => workers'[s].err[1] = "FunctionNotRegistered"
        /\ (w.pc = "L120" /\ w.err[1] = "FunctionNotRegistered" /\ workers'[s] # w) =>
                /\ workers'[s].pc \in {"defer82", "idle"}
                /\ workers'[s].pc = "defer82" =>
                    /\ workers'[s].je.status = JobStatusFailed
                    /\ workers'[s].je.ts[CurTask(w).id] = TaskStatusFailed
                    /\ dbOpen => jobExecs'[w.id] = workers'[s].je

C8_NotRegistered == []C8_NotRegisteredState /\ [][C8_NotRegisteredStep]_vars

\* The second task (maxRetry > 0) was run with no function registered and the
\* failure is in the store.
C8_Witness ==
    \E s \in Slots :
        /\ workers[s].pc = "defer82"
        /\ workers[s].err = << "TaskFailed", "t2", "FunctionNotRegistered", "t2" >>
        /\ jobExecs[workers[s].id].status = JobStatusFailed
        /\ jobExecs[workers[s].id].ts["t2"] = TaskStatusFailed

\* C9: once a task of an execution has failed, ExecuteJob marks the job FAILED
\* and, in that call, calls no further task function and changes no task
\* status other than the failed task's.
C9_FailFastStep ==
    \A s \in Slots :
        LET w == workers[s] IN
        /\ (w.pc = "L120" /\ workers'[s] # w /\ workers'[s].pc # "idle") =>
                /\ workers'[s].pc = "defer82"
                /\ workers'[s].je.status = JobStatusFailed
                /\ \A t \in TaskIds \ {CurTask(w).id} :
                        workers'[s].je.ts[t] = w.je.ts[t]
                /\ dbOpen => jobExecs'[w.id] = workers'[s].je
        /\ (w.pc # "idle" /\ w.je.status = JobStatusFailed /\ workers'[s] # w) =>
                /\ ~ CallsFn(s)
                /\ workers'[s].pc \in {"defer83", "defer87", "ret", "idle"}
                /\ workers'[s].pc # "idle" =>
                        /\ workers'[s].je.ts = w.je.ts
                        /\ workers'[s].je.status = JobStatusFailed

C9_FailFast == [][C9_FailFastStep]_vars

\* The first of two tasks failed; ExecuteJob has returned and the second task
\* has no status.
C9_Witness ==
    \E s \in Slots :
        /\ workers[s].pc = "ret"
        /\ workers[s].err[1] = "TaskFailed"
        /\ workers[s].i = 1
        /\ Len(workers[s].jd) = 2
        /\ workers[s].je.ts[workers[s].jd[2].id] = NoEntry
        /\ jobExecs[workers[s].id] = workers[s].je

\* C4: once the task functions are registered and the server accepts requests,
\* with the process up for good, every execution in the queue for a registered
\* definition eventually has persisted status COMPLETED or FAILED.
C4_AllTerminate ==
    \A x \in ExecIds :
        (/\ mainPc = "serve"
         /\ x \in queue
         /\ jobExecs[x] # NoExec
         /\ jobExecs[x].def \in DefIds
         /\ jobDefs[jobExecs[x].def] # NoDef
         /\ crashes = MaxCrashes)
            ~> IsTerminal(jobExecs[x].status)

\* MaxEnqueues executions were enqueued and all of them are terminal.
C4_Witness ==
    /\ crashes = MaxCrashes
    /\ enqueues = MaxEnqueues
    /\ \A x \in ExecIds : IsTerminal(jobExecs[x].status) /\ jobExecs[x].ended

\* The engine starts with execution x persisted as RUNNING and not queued.
StartsRunning(x) ==
    /\ mainPc = "recover"
    /\ crashes = MaxCrashes
    /\ jobExecs[x].status = JobStatusRunning
    /\ x \notin queue

\* An ExecuteJob call dispatched by recoverState enters the task loop at the
\* first task, and the loop only moves from a completed task to the next one.
C6_FromFirstTask ==
    \A s \in RecoverySlots :
        LET w == workers[s] IN
        (workers'[s] # w /\ workers'[s].pc # "idle" /\ w.origin = "recovery") =>
            /\ w.pc = "L77" => (workers'[s].i = 1 /\ workers'[s].pc = "L101")
            /\ workers'[s].i # w.i =>
                   \/ w.pc = "L77"
                   \/ w.pc = "L130" /\ workers'[s].i = w.i + 1

\* C6: an execution found RUNNING and not queued at startup is dispatched to
\* ExecuteJob by recovery, runs its tasks again from the first task whatever
\* task statuses are recorded, and eventually is persisted COMPLETED or FAILED.
C6_Recovery ==
    /\ \A x \in ExecIds :
          StartsRunning(x) ~>
              (workers[x].pc = "L50" /\ workers[x].origin = "recovery" /\ workers[x].id = x)
    /\ \A x \in ExecIds : StartsRunning(x) ~> IsTerminal(jobExecs[x].status)
    /\ [][C6_FromFirstTask]_vars

\* The EnqueueJob call of client c stores its record in this step.
EnqStores(c) ==
    /\ clients[c].pc = "store"
    /\ clients'[c].pc = "queue"

\* The EnqueueJob call of client c inserts its queue entry and returns its id
\* in this step.
EnqReturnsId(c) ==
    /\ clients[c].pc = "queue"
    /\ clients'[c].pc = "idle"
    /\ dbOpen
    /\ crashes' = crashes
    /\ mainPc' = mainPc

\* C11: execution ids are unique: two EnqueueJob calls in progress never hold
\* the same id, and no call stores its record over a record, or puts its queue
\* entry over an entry, that another call created.
C11_UniqueIds ==
    [][/\ \A c1 \in Clients : \A c2 \in Clients \ {c1} :
              (clients[c1].pc # "idle" /\ clients[c2].pc # "idle")
                  => clients[c1].id # clients[c2].id
       /\ \A c \in Clients :
              /\ EnqStores(c) => jobExecs[clients[c].id] = NoExec
              /\ EnqReturnsId(c) => clients[c].id \notin queue]_vars

\* The process goes on in this step (it is neither killed nor ended).
ProcessLives == crashes' = crashes /\ mainPc' = mainPc

\* ExecuteJob has returned nil from the terminal-state check (before the
\* definition was loaded and the deferred cleanup registered).
NoOpReturn(w) == w.pc = "ret" /\ w.err = NoErr /\ w.jd = Idle.jd

C12_TerminalNoOpStep ==
    \A s \in Slots :
        LET w == workers[s] IN
        /\ (/\ w.pc = "L50"
            /\ dbOpen
            /\ IsTerminal(jobExecs[w.id].status)
            /\ workers'[s] # w
            /\ ProcessLives) =>
                /\ NoOpReturn(workers'[s])
                /\ ~ CallsFn(s)
                /\ storeVars' = storeVars
                /\ ongoingJobs' = ongoingJobs
        /\ (NoOpReturn(w) /\ workers'[s] # w /\ ProcessLives) =>
                /\ workers'[s] = Idle
                /\ storeVars' = storeVars
                /\ ongoingJobs' = ongoingJobs

\* C12: ExecuteJob on an execution persisted as COMPLETED or FAILED returns
\* nil, calls no task function, writes nothing to the store and leaves the
\* queue and the ongoing set as they are.
C12_TerminalNoOp == [][C12_TerminalNoOpStep]_vars

\* ExecuteJob has returned from the terminal-state check on a FAILED execution.
C12_Witness ==
    \E s \in Slots :
        /\ NoOpReturn(workers[s])
        /\ workers[s].je.status = JobStatusFailed
        /\ jobExecs[workers[s].id] = workers[s].je

\* The task ids of definition jd.
TasksOf(jd) == {jd[k].id : k \in 1..Len(jd)}

\* C13: while ExecuteJob runs the tasks of a definition (from the first
\* iteration of its loop to its return), every task of that definition has a
\* registered function.
C13_RegisteredBeforeRun ==
    \A s \in Slots :
        workers[s].pc \in {"L101", "L289", "L299", "L120", "L130"}
            => TasksOf(workers[s].jd) \subseteq taskFunctions

\* C14: every persisted execution record, and every queue entry, belongs to an
\* execution whose definition id resolves to a stored definition.
C14_DefinitionResolves ==
    /\ \A x \in ExecIds :
          jobExecs[x] # NoExec =>
              /\ jobExecs[x].def \in DefIds
              /\ jobDefs[jobExecs[x].def] # NoDef
    /\ \A x \in queue : jobExecs[x] # NoExec /\ jobDefs[jobExecs[x].def] # NoDef

\* The EnqueueJob call of client c returns an error and an empty id in this
\* step: StoreJobExecution failed, or the queue Put failed.
EnqReturnsError(c) ==
    /\ clients[c].pc \in {"store", "queue"}
    /\ clients'[c].pc = "idle"
    /\ ~dbOpen
    /\ ProcessLives

\* C15: when EnqueueJob returns an error, no execution record and no queue
\* entry exist for the attempted id; when it returns an id, a record with
\* status QUEUED and a queue entry exist for that id.
C15_EnqueueAllOrNothing ==
    [][\A c \in Clients :
          /\ EnqReturnsError(c) =>
                /\ jobExecs'[clients[c].id] = NoExec
                /\ clients[c].id \notin queue'
          /\ EnqReturnsId(c) =>
                /\ jobExecs'[clients[c].id] # NoExec
                /\ jobExecs'[clients[c].id].status = JobStatusQueued
                /\ clients[c].id \in queue']_vars

\* C16: for an execution whose status is COMPLETED, the snapshot returned by
\* GetJobExecutionState is the same before and after every step of the system
\* that leaves the store open, so any two calls return identical snapshots.
C16_StableSnapshot ==
    [][\A x \in ExecIds :
          (/\ dbOpen /\ dbOpen'
           /\ jobExecs[x].status = JobStatusCompleted)
              => GetJobExecutionState(jobExecs', jobDefs', dbOpen', x)
                     = GetJobExecutionState(jobExecs, jobDefs, dbOpen, x)]_vars

\* C17: once a definition is stored under an id, no step changes the task
\* sequence stored under that id.
C17_DefinitionImmutable ==
    [][\A d \in DefIds : jobDefs[d] # NoDef => jobDefs'[d] = jobDefs[d]]_vars

\* C18: with the store accepting writes, while a task function is being
\* invoked the persisted record shows the job RUNNING, that task RUNNING and
\* every earlier task of the run COMPLETED; once ExecuteJob has returned after
\* a task failure or a cancellation the persisted record shows the job FAILED
\* and the failing task FAILED.
C18_PersistedBeforeNextStep ==
    \A s \in Slots :
        LET w == workers[s] IN
        /\ (w.pc = "L299" /\ dbOpen) =>
                /\ jobExecs[w.id].status = JobStatusRunning
                /\ jobExecs[w.id].ts[CurTask(w).id] = TaskStatusRunning
                /\ \A j \in 1..(w.i - 1) :
                        jobExecs[w.id].ts[w.jd[j].id] = TaskStatusCompleted
        /\ (w.pc = "ret" /\ dbOpen /\ w.err # NoErr
                /\ w.err[1] \in {"TaskFailed", "ctx.Err"}) =>
                /\ jobExecs[w.id].status = JobStatusFailed
                /\ jobExecs[w.id].ts[CurTask(w).id] = TaskStatusFailed

\* C19: once Close is called, the coordinating loop exits and Close returns
\* (or the process is gone), also while dispatched executions do not finish.
C19_CloseReturns ==
    (closePc = "send") ~> (closePc \notin {"send", "wait"})

\* C20: whatever way ExecuteJob returns, on return the execution id is absent
\* from the ongoing set and from the queue, and (the store accepting writes)
\* the persisted record carries the end time and is the final state of the call.
C20_CleanupOnEveryExit ==
    \A s \in Slots :
        LET w == workers[s] IN
        w.pc = "ret" =>
            /\ w.id \notin ongoingJobs
            /\ w.id \notin queue
            /\ (dbOpen /\ jobExecs[w.id] # NoExec) =>
                    /\ jobExecs[w.id].ended
                    /\ w.je # NoExec => jobExecs[w.id] = w.je

\* ExecuteJob has returned the error of GetJobDefinition.
DefinitionNotFound(w) == w.pc = "ret" /\ w.err = << "GetJobDefinition" >>

C21_UnresolvedDefinitionStep ==
    \A s \in Slots :
        LET w == workers[s] IN
        /\ (/\ w.pc = "L63"
            /\ (~dbOpen \/ jobDefs[w.je.def] = NoDef)
            /\ workers'[s] # w
            /\ ProcessLives) =>
                /\ DefinitionNotFound(workers'[s])
                /\ ~ CallsFn(s)
                /\ jobExecs' = jobExecs
                /\ ongoingJobs' = ongoingJobs
        /\ (DefinitionNotFound(w) /\ workers'[s] # w /\ ProcessLives) =>
                /\ workers'[s] = Idle
                /\ jobExecs' = jobExecs
                /\ ongoingJobs' = ongoingJobs

\* C21: when ExecuteJob cannot resolve the definition it returns the error,
\* having called no task function, and neither the lookup nor the return
\* changes the persisted execution or the ongoing set.
C21_UnresolvedDefinition ==
    /\ [](\A s \in Slots : DefinitionNotFound(workers[s]) => workers[s].calls = 0)
    /\ [][C21_UnresolvedDefinitionStep]_vars

\* ExecuteJob has returned from an execution enqueued for a definition id that
\* is not stored; the record is still QUEUED with no task status.
C21_Witness ==
    \E s \in Slots :
        /\ DefinitionNotFound(workers[s])
        /\ dbOpen
        /\ jobExecs[workers[s].id].status = JobStatusQueued
        /\ jobExecs[workers[s].id].ts = NoTasks
        /\ workers[s].id \notin ongoingJobs

\* ExecuteJob of goroutine s has observed the cancellation.
Cancelled(w) == w.pc # "idle" /\ w.err = << "ctx.Err" >>

C22_CancellationStep ==
    \A s \in Slots :
        LET w == workers[s] IN
        (workers'[s] # w /\ ProcessLives /\ w.ctxDone) =>
            /\ w.pc = "L101" =>
                /\ ~ CallsFn(s)
                /\ workers'[s].pc = "defer82"
                /\ workers'[s].err = << "ctx.Err" >>
                /\ workers'[s].je.status = JobStatusFailed
                /\ workers'[s].je.ts[CurTask(w).id] = TaskStatusFailed
                /\ \A t \in TaskIds \ {CurTask(w).id} :
                        workers'[s].je.ts[t] = w.je.ts[t]
            /\ w.pc = "L299" =>
                /\ CallsFn(s)
                /\ workers'[s].pc \in {"L299", "L130", "L120"}
                /\ workers'[s].pc = "L120" =>
                        /\ w.retries = CurTask(w).maxRetry
                        /\ workers'[s].err[1] = "RetriesExhausted"
                /\ workers'[s].pc = "L299" =>
                        /\ workers'[s].retries = w.retries + 1
                        /\ Len(workers'[s].waits) = Len(w.waits) + 1

C22_CancellationState ==
    \A s \in Slots :
        LET w == workers[s] IN
        Cancelled(w) =>
            /\ w.pc \in {"defer82", "defer83", "defer87", "ret"}
            /\ w.je.status = JobStatusFailed
            /\ w.pc = "ret" =>
                /\ jobExecs[w.id].status = JobStatusFailed
                /\ jobExecs[w.id].ts[CurTask(w).id] = TaskStatusFailed
                /\ jobExecs[w.id].ended

\* C22: a cancelled context is observed when ExecuteJob is about to start a
\* task: that task and the job are marked FAILED without a call of the task's
\* function, no later task is started and the exit cleanup persists this
\* state; while a task is in its retry loop a cancelled context changes
\* nothing: the function is called and retried as without cancellation.
C22_Cancellation == []C22_CancellationState /\ [][C22_CancellationStep]_vars

\* The context was cancelled while the first task ran: the first task was
\* completed, the second one failed at its start, and ExecuteJob has returned.
C22_Witness ==
    \E s \in Slots :
        /\ Cancelled(workers[s])
        /\ workers[s].pc = "ret"
        /\ workers[s].i = 2
        /\ jobExecs[workers[s].id].ts[workers[s].jd[1].id] = TaskStatusCompleted
        /\ jobExecs[workers[s].id].ts[workers[s].jd[2].id] = TaskStatusFailed

\* C23: a persisted job status COMPLETED implies that every task of the
\* execution's definition has persisted status COMPLETED, and an ExecuteJob call
\* marks the job COMPLETED only when every task of the definition it ran is
\* COMPLETED.
C23_CompletedMeansAllTasks ==
    /\ \A x \in ExecIds :
          (jobExecs[x].status = JobStatusCompleted /\ jobDefs[jobExecs[x].def] # NoDef)
              => \A t \in TasksOf(jobDefs[jobExecs[x].def]) :
                     jobExecs[x].ts[t] = TaskStatusCompleted
    /\ \A s \in Slots :
          (workers[s].pc # "idle" /\ workers[s].je.status = JobStatusCompleted
                /\ ~ NoOpReturn(workers[s]))
              => \A t \in TasksOf(workers[s].jd) :
                     workers[s].je.ts[t] = TaskStatusCompleted

\* The worker is inside executeTask, at the call of the task function.
InFn(w) ==
    w.pc = "L299"

\* C24: within one execution tasks run strictly in declared order: the
\* function of a task is being called only when every earlier task of the
\* definition is recorded COMPLETED (in the call's record and, while the store
\* is open, in the persisted one), and no two workers are calling task
\* functions of the same execution at the same time.
C24_SequentialTasks ==
    /\ \A s \in Slots :
          InFn(workers[s])
              => \A j \in 1 .. (workers[s].i - 1) :
                     /\ workers[s].je.ts[workers[s].jd[j].id] = TaskStatusCompleted
                     /\ dbOpen =>
                           jobExecs[workers[s].id].ts[workers[s].jd[j].id] = TaskStatusCompleted
    /\ \A s1, s2 \in Slots :
          (InFn(workers[s1]) /\ InFn(workers[s2]) /\ workers[s1].id = workers[s2].id)
              => s1 = s2

\* C25: every worker slot acquired by the coordinating loop is released when
\* the dispatched ExecuteJob returns, with nil or with an error: the number of
\* held slots equals the number of loop-dispatched executions still in progress
\* and never exceeds maxConcurrent (so it is zero once all have finished).
C25_SlotsReleased ==
    /\ workerPool = Cardinality({ s \in PoolSlots : workers[s].pc # "idle" })
    /\ workerPool <= maxConcurrent

\* A loop-dispatched execution has failed and returned, nothing is in progress
\* and no slot is held.
C25_Witness ==
    /\ crashes = 0
    /\ workerPool = 0
    /\ \A s \in Slots : workers[s].pc = "idle"
    /\ \E x \in ExecIds :
          jobExecs[x].status = JobStatusFailed /\ jobExecs[x].ended

\* A dequeue attempt of the coordinating loop that yields no job.
FailedDequeue ==
    /\ ProcessLives
    /\ loopPc = "select"
    /\ loopPc' \notin {"select", "acquire", "exited"}

\* C26: DequeueJob on an empty queue yields no job and leaves the store
\* unchanged, and every dequeue attempt that yields no job (empty queue or any
\* other store error) is followed by the loop's wait, with no worker slot
\* acquired, nothing dispatched and the loop still running.
C26_FailedDequeueWaits ==
    [][/\ (ProcessLives /\ loopPc = "select" /\ loopPc' = "acquire") => queue # {}
       /\ FailedDequeue =>
             /\ loopPc' = "sleep"
             /\ UNCHANGED << storeVars, workerPool, workers, loopJob >>]_vars

\* The execution has been handed to the running process and is not finished:
\* the loop holds its id, or an ExecuteJob call for it has not returned.
InFlight(x) ==
    \/ loopJob = x
    \/ \E s \in Slots : workers[s].pc \notin {"idle", "ret"} /\ workers[s].id = x

\* C27: no enqueued execution is lost by a crash: when the process crashes,
\* every execution whose persisted status is QUEUED and that was in the queue
\* or in flight is in the queue after the restart (an execution persisted as
\* RUNNING is found by recovery's scan of the store).
C27_NoLossByCrash ==
    [][crashes' = crashes + 1 =>
          \A x \in ExecIds :
              (jobExecs[x].status = JobStatusQueued /\ (x \in queue \/ InFlight(x)))
                  => x \in queue']_vars

\* C28: when the persisted job status of an execution is COMPLETED or FAILED,
\* none of its tasks has persisted status RUNNING, also after a crash in the
\* middle of a task and the re-run by recovery.
C28_NoRunningTaskWhenTerminal ==
    \A x \in ExecIds :
        IsTerminal(jobExecs[x].status)
            => \A t \in TaskIds : jobExecs[x].ts[t] # TaskStatusRunning

\* C29: every id in the ongoing set belongs to an ExecuteJob call that has
\* been dispatched and has not returned (so an id that recovery added leaves
\* the set however the recovered call returns).
C29_OngoingHasCall ==
    \A x \in ongoingJobs :
        \E s \in Slots : workers[s].pc \notin {"idle", "ret"} /\ workers[s].id = x

\* C30: every enqueued execution that has not reached a terminal status is
\* visible to system-state reporting: while the running process holds it (the
\* loop has dequeued it, or an ExecuteJob call for it has not returned), its id
\* is in the queue or in the ongoing set.
C30_VisibleToSystemState ==
    \A x \in ExecIds :
        (InFlight(x) /\ jobExecs[x].status \in {JobStatusQueued, JobStatusRunning})
            => x \in queue \cup ongoingJobs

\* C31: with the server accepting requests and the process up for good, every
\* execution id the coordinating loop has dequeued eventually has persisted
\* status COMPLETED or FAILED, also when its definition id does not resolve.
C31_DequeuedTerminates ==
    \A x \in ExecIds :
        (/\ mainPc = "serve"
         /\ crashes = MaxCrashes
         /\ loopJob = x
         /\ jobExecs[x] # NoExec)
            ~> IsTerminal(jobExecs[x].status)

\* The loop, holding a dequeued id, either keeps waiting for a worker slot or
\* starts ExecuteJob for that id.
DequeuedIsDispatched ==
    (ProcessLives /\ loopPc = "acquire")
        => \/ loopPc' = "acquire" /\ loopJob' = loopJob
           \/ /\ loopPc' = "select"
              /\ \E s \in PoolSlots :
                    /\ workers[s].pc = "idle"
                    /\ workers'[s].pc = "L50"
                    /\ workers'[s].id = loopJob

\* After Close has returned the loop neither dequeues nor dispatches.
StoppedLoopIsStill ==
    (ProcessLives /\ closePc = "closed")
        => /\ loopPc' = "exited"
           /\ loopJob' = loopJob
           /\ \A s \in PoolSlots : workers[s].pc = "idle" => workers'[s].pc = "idle"

\* The loop stops only at its select, with no dequeued id in hand.
StopsEmptyHanded ==
    /\ loopPc = "exited" => loopJob = 0
    /\ closePc \in {"wait", "closed"} => loopPc = "exited"

\* C32: a stop signal never drops work: the coordinating loop takes the stop
\* signal only before a dequeue, so every id it has dequeued is passed to
\* ExecuteJob, and once Close has returned the loop performs no further dequeue
\* or dispatch.
C32_StopDropsNothing ==
    /\ []StopsEmptyHanded
    /\ [][DequeuedIsDispatched /\ StoppedLoopIsStill]_vars

\* Close has returned, and an execution the loop dequeued is still being run
\* by the ExecuteJob call it was passed to.
C32_Witness ==
    /\ closePc = "closed"
    /\ loopPc = "exited"
    /\ loopJob = 0
    /\ \E s \in PoolSlots :
          /\ workers[s].pc \notin {"idle", "ret"}
          /\ workers[s].origin = "queue"
          /\ workers[s].id \notin queue

\* The set of the elements of a sequence.
Range(q) == { q[k] : k \in 1 .. Len(q) }

\* C33: every snapshot GetSystemState returns is consistent: queuedCount is
\* the number of ids in queuedJobs and no id is both in queuedJobs and in
\* activeJobs.
C33_ConsistentSnapshot ==
    \A c \in Clients :
        clients[c].pc = "sysDone"
            => /\ clients[c].queuedCount = Len(clients[c].queuedJobs)
               /\ Range(clients[c].queuedJobs) \cap clients[c].activeJobs = {}

====
